---- MODULE Spec2Model ----
(***************************************************************************)
(* Model of ascii_drawer (src/src/main.rs): Vec2, AABB, AsciiCanvas and    *)
(* AsciiDrawer.                                                            *)
(*                                                                         *)
(* An f32 is held as a fixed-point integer, the value times Den.  The      *)
(* values the model draws are dyadic, so every f32 product, quotient and   *)
(* difference it forms is exact or is rounded by F32Round as the hardware  *)
(* rounds it (24-bit significand, ties to even).  An i32 is an integer.    *)
(* A char is a one-character string, a &str a sequence of chars (ASCII,    *)
(* one byte per char).                                                     *)
(***************************************************************************)
EXTENDS Integers, Sequences, FiniteSets, TLC

VARIABLES
    scale,      \* AsciiDrawer.scale
    buffer,     \* AsciiCanvas.buffer : (i32, i32) -> char
    bounds,     \* AsciiCanvas.bounds : AABB
    box,        \* an AABB used on its own
    out,        \* what the last draw() did: status and printed lines
    log,        \* history: every buffer.insert issued so far, in order
    last,       \* history: the last drawing call and its arguments
    nops,       \* history: number of calls made (draw excluded)
    redraws     \* history: draws made since the canvas was last written

vars == <<scale, buffer, bounds, box, out, log, last, nops, redraws>>

----------------------------------------------------------------------------
(* Bounds of the model *)

MaxOps == 2
MaxDraws == 2
MaxGridSide == 40

----------------------------------------------------------------------------
(* f32 and i32 arithmetic *)

Den == 16

\* 2^24: the integers an f32 holds exactly end here
F32Limit == 16777216

Abs(v) == IF v < 0 THEN -v ELSE v

RECURSIVE Ulp(_, _)
Ulp(a, u) == IF a \div u < F32Limit THEN u ELSE Ulp(a, 2 * u)

\* round to the nearest f32, ties to even
F32Round(v) ==
    LET a == Abs(v)
        u == Ulp(a, 1)
        q == a \div u
        r == a % u
        q2 == IF 2 * r > u \/ (2 * r = u /\ q % 2 = 1) THEN q + 1 ELSE q
    IN  IF v < 0 THEN -(q2 * u) ELSE q2 * u

\* `n as f32` for an i32 n
ToF32(n) == F32Round(n * Den)

\* f32 * f32, f32 - f32, f32 / 2.0
FMul(a, b) == F32Round((a * b) \div Den)
FSub(a, b) == F32Round(a - b)
Half(a) == a \div 2

\* f32::round (half away from zero), f32::ceil, f32::floor, each `as i32`
RoundI32(v) ==
    IF v >= 0 THEN (2 * v + Den) \div (2 * Den)
    ELSE -((2 * (-v) + Den) \div (2 * Den))
CeilI32(v) == -((-v) \div Den)
FloorI32(v) == v \div Den

----------------------------------------------------------------------------
(* Vec2 *)

Vec2(x, y) == [x |-> x, y |-> y]

VecMulSameAxis(self, rhs) == Vec2(FMul(self.x, rhs.x), FMul(self.y, rhs.x))

\* impl Mul<Vec2> for Vec2
Mul(self, rhs) == Vec2(FMul(self.x, rhs.x), FMul(self.y, rhs.y))

----------------------------------------------------------------------------
(* AABB *)

AABBInverted ==
    [x_min |-> F32Limit, x_max |-> -F32Limit, y_min |-> F32Limit, y_max |-> -F32Limit]

\* #[derive(Default)]
AABBDefault == [x_min |-> 0, x_max |-> 0, y_min |-> 0, y_max |-> 0]

IncludePointAssign(self, point) ==
    [x_min |-> point.x,
     x_max |-> IF point.x > self.x_max THEN point.x ELSE self.x_max,
     y_min |-> IF point.y < self.y_min THEN point.y ELSE self.y_min,
     y_max |-> IF point.y > self.y_max THEN point.y ELSE self.y_max]

\* AABB::include_point
IncludePoint(self, point) ==
    [x_min |-> IF point.x < self.x_min THEN point.x ELSE self.x_min,
     x_max |-> IF point.x > self.x_max THEN point.x ELSE self.x_max,
     y_min |-> IF point.y < self.y_min THEN point.y ELSE self.y_min,
     y_max |-> IF point.y > self.y_max THEN point.y ELSE self.y_max]

----------------------------------------------------------------------------
(* AsciiCanvas: writes *)

Write(x, y, ch) == [cell |-> <<x, y>>, ch |-> ch]

InsertKeepFirst(buf, cell, ch) == buf @@ (cell :> ch)

\* HashMap::insert
Insert(buf, cell, ch) == (cell :> ch) @@ buf

\* one buffer.insert with its bounds.include_point
ApplyWrite(cv, w) ==
    [buffer |-> Insert(cv.buffer, w.cell, w.ch),
     bounds |-> IncludePoint(cv.bounds, Vec2(ToF32(w.cell[1]), ToF32(w.cell[2])))]

\* the writes ws[lo..hi] applied in order.  The range is halved, and the first
\* half is evaluated before the second is entered (the test first = first does
\* only that), to keep the evaluation shallow.
RECURSIVE ApplyRange(_, _, _, _)
ApplyRange(cv, ws, lo, hi) ==
    IF lo > hi THEN cv
    ELSE IF lo = hi THEN ApplyWrite(cv, ws[lo])
    ELSE LET mid == (lo + hi) \div 2
             first == ApplyRange(cv, ws, lo, mid)
         IN  IF first = first THEN ApplyRange(first, ws, mid + 1, hi) ELSE first

ApplyWrites(cv, ws) == ApplyRange(cv, ws, 1, Len(ws))

\* the local variables of AsciiCanvas::rect
RectHalfWidth(size) == CeilI32(Half(size.x))
RectHalfHeight(size) == CeilI32(Half(size.y))
RectCenterX(center) == RoundI32(center.x)
RectCenterY(center) == RoundI32(center.y)

\* number of iterations of `for v in -h..=h`
RangeLen(h) == IF h >= 0 THEN 2 * h + 1 ELSE 0

\* the first loop of AsciiCanvas::rect
RectHorizontal(center, size) ==
    LET hw == RectHalfWidth(size)
        hh == RectHalfHeight(size)
        cx == RectCenterX(center)
        cy == RectCenterY(center)
    IN  [k \in 1..(2 * RangeLen(hw)) |->
            LET px == cx + (-hw + (k - 1) \div 2)
            IN  IF k % 2 = 1 THEN Write(px, cy - hh, "-") ELSE Write(px, cy + hh, "-")]

\* the second loop of AsciiCanvas::rect
RectVertical(center, size) ==
    LET hw == RectHalfWidth(size)
        hh == RectHalfHeight(size)
        cx == RectCenterX(center)
        cy == RectCenterY(center)
    IN  [k \in 1..(2 * RangeLen(hh)) |->
            LET py == cy + (-hh + (k - 1) \div 2)
            IN  IF k % 2 = 1 THEN Write(cx - hw, py, "|") ELSE Write(cx + hw, py, "|")]

RectWritesVerticalFirst(center, size) ==
    RectVertical(center, size) \o RectHorizontal(center, size)

\* the inserts of AsciiCanvas::rect, in the order issued
RectWrites(center, size) ==
    RectHorizontal(center, size) \o RectVertical(center, size)

TextWritesFromPosition(position, text) ==
    [i \in 1..Len(text) |->
        Write(RoundI32(position.x) + (i - 1), RoundI32(position.y), text[i])]

\* the inserts of AsciiCanvas::text, in the order issued
TextWrites(position, text) ==
    LET start_x == RoundI32(position.x) - (Len(text) \div 2)
        start_y == RoundI32(position.y)
    IN  [i \in 1..Len(text) |-> Write(start_x + (i - 1), start_y, text[i])]

\* AsciiCanvas::rect and AsciiCanvas::text on a canvas value
CanvasRectResult(cv, center, size) == ApplyWrites(cv, RectWrites(center, size))
CanvasTextResult(cv, position, text) == ApplyWrites(cv, TextWrites(position, text))

----------------------------------------------------------------------------
(* AsciiCanvas::draw *)

DrawWidth(b) == CeilI32(FSub(b.x_max, b.x_min)) + 1
DrawHeight(b) == CeilI32(FSub(b.y_max, b.y_min)) + 1
DrawOffsetX(b) == FloorI32(b.x_min)
DrawOffsetY(b) == FloorI32(b.y_min)

CanvasXFolded(cell, b) == (cell[1] - DrawOffsetX(b)) \div 2

\* canvas_x and canvas_y before the cast to usize
CanvasX(cell, b) == cell[1] - DrawOffsetX(b)
CanvasY(cell, b) == cell[2] - DrawOffsetY(b)

\* canvas[canvas_y][canvas_x] is out of range for some buffered cell (a negative
\* index cast to usize is far beyond any row or column)
DrawPanics(buf, b) ==
    \E c \in DOMAIN buf :
        \/ CanvasY(c, b) < 0 \/ CanvasY(c, b) >= DrawHeight(b)
        \/ CanvasX(c, b) < 0 \/ CanvasX(c, b) >= DrawWidth(b)

\* vec![vec![' '; width]; height]
BlankGrid(w, h) == [r \in 0..(h - 1) |-> [c \in 0..(w - 1) |-> " "]]

\* canvas[canvas_y][canvas_x] = ch
FillCell(grid, buf, b, cell) ==
    [grid EXCEPT ![CanvasY(cell, b)][CanvasX(cell, b)] = buf[cell]]

\* the copy loop over ord[lo..hi], a visiting order of the buffer (halved as
\* ApplyRange is)
RECURSIVE FillRange(_, _, _, _, _, _)
FillRange(grid, buf, b, ord, lo, hi) ==
    IF lo > hi THEN grid
    ELSE IF lo = hi THEN FillCell(grid, buf, b, ord[lo])
    ELSE LET mid == (lo + hi) \div 2
             first == FillRange(grid, buf, b, ord, lo, mid)
         IN  IF first = first THEN FillRange(first, buf, b, ord, mid + 1, hi) ELSE first

FillGrid(grid, buf, b, ord) == FillRange(grid, buf, b, ord, 1, Len(ord))

\* for row in canvas.iter().rev() { println!(...) }
PrintRows(grid, w, h) == [k \in 1..h |-> [j \in 1..w |-> grid[h - k][j - 1]]]

NotDrawn == [status |-> "none", lines |-> <<>>]

CanvasDraw(buf, b, ord) ==
    IF DrawPanics(buf, b) THEN [status |-> "panic", lines |-> <<>>]
    ELSE [status |-> "ok",
          lines |-> PrintRows(FillGrid(BlankGrid(DrawWidth(b), DrawHeight(b)), buf, b, ord),
                              DrawWidth(b), DrawHeight(b))]

\* Iteration orders of the HashMap.  The order is unspecified; two opposite
\* ones are modelled: keys by the time of their latest insert, oldest first or
\* newest first.  They are read off the insert history, where a key inserted
\* more than once is visited more than once, each visit copying the same char.
Reversed(s) == [i \in 1..Len(s) |-> s[Len(s) + 1 - i]]

IterOrders(inserts) ==
    LET keys == [i \in 1..Len(inserts) |-> inserts[i].cell]
    IN  {keys, Reversed(keys)}

----------------------------------------------------------------------------
(* Inputs *)

\* an integer past 2^24 that an f32 holds exactly; its odd neighbours are not held
BigCoord == F32Limit + 4

CanvasCenters == {Vec2(0, 0), Vec2(-24, 8)}
RectSizes == {Vec2(64, 32), Vec2(64, -32), Vec2(-64, 32)}
TextCalls ==
    {<<Vec2(0, 0), <<"A">>>>, <<Vec2(0, 0), <<"A", "B">>>>, <<Vec2(0, 0), <<"A", "B", "C">>>>,
     <<Vec2(80, 80), <<"A">>>>,
     <<Vec2(-24, 8), <<"A">>>>, <<Vec2(-24, 8), <<"A", "B">>>>,
     <<Vec2(BigCoord * Den, 0), <<"A">>>>, <<Vec2(BigCoord * Den, 0), <<"A", "B", "C">>>>}
Scales == {Vec2(80, 80), Vec2(80, 36)}
DrawerCenters == {Vec2(-16, 0), Vec2(8, 16)}
DrawerSizes == {Vec2(16, 16), Vec2(32, 16)}
DrawerTexts == {<<"A", "B">>}
BoxPoints == {Vec2(-24, 8), Vec2(0, 0), Vec2(32, -8), Vec2(-8, 24), Vec2(-40, -16)}

----------------------------------------------------------------------------
(* The state machine *)

Canvas == [buffer |-> buffer, bounds |-> bounds]

\* the record of a drawing call: its arguments, its number, and the length of
\* the insert history when it began
Call(op, a, b, text) ==
    [op |-> op, a |-> a, b |-> b, text |-> text, n |-> nops + 1, from |-> Len(log)]

\* AsciiDrawer::new(scale), with an AABB of its own beside it
Init ==
    /\ scale \in Scales
    /\ buffer = << >>
    /\ bounds = AABBDefault
    /\ box = AABBDefault
    /\ out = NotDrawn
    /\ log = << >>
    /\ last = [op |-> "new", a |-> Vec2(0, 0), b |-> Vec2(0, 0), text |-> << >>,
               n |-> 0, from |-> 0]
    /\ nops = 0
    /\ redraws = 0

\* a drawing call that issued the writes ws and left the canvas as cv
Drawn(cv, ws, call) ==
    /\ nops < MaxOps
    /\ buffer' = cv.buffer
    /\ bounds' = cv.bounds
    /\ log' = log \o ws
    /\ last' = call
    /\ nops' = nops + 1
    /\ redraws' = 0
    /\ UNCHANGED <<scale, box, out>>

\* AsciiCanvas::rect
CanvasRect ==
    \E center \in CanvasCenters, size \in RectSizes :
        Drawn(CanvasRectResult(Canvas, center, size), RectWrites(center, size),
              Call("canvas_rect", center, size, << >>))

\* AsciiCanvas::text
CanvasText ==
    \E call \in TextCalls :
        LET position == call[1]
            text == call[2]
        IN  Drawn(CanvasTextResult(Canvas, position, text), TextWrites(position, text),
                  Call("canvas_text", position, Vec2(0, 0), text))

\* AsciiDrawer::rect
DrawerRect ==
    \E center \in DrawerCenters, size \in DrawerSizes :
        LET scaled_center == Mul(center, scale)
            scaled_size == Mul(size, scale)
        IN  Drawn(CanvasRectResult(Canvas, scaled_center, scaled_size),
                  RectWrites(scaled_center, scaled_size),
                  Call("drawer_rect", center, size, << >>))

\* AsciiDrawer::text
DrawerText ==
    \E position \in DrawerCenters, text \in DrawerTexts :
        LET scaled_position == Mul(position, scale)
        IN  Drawn(CanvasTextResult(Canvas, scaled_position, text),
                  TextWrites(scaled_position, text),
                  Call("drawer_text", position, Vec2(0, 0), text))

\* AABB::include_point called on its own
BoxInclude ==
    \E point \in BoxPoints :
        /\ nops < MaxOps
        /\ box' = IncludePoint(box, point)
        /\ nops' = nops + 1
        /\ UNCHANGED <<scale, buffer, bounds, out, log, last, redraws>>

\* AsciiDrawer::draw, that is AsciiCanvas::draw.  A grid wider or taller than
\* MaxGridSide is not materialised; a draw that panics never fills one.
Draw ==
    /\ redraws < MaxDraws
    /\ \/ DrawPanics(buffer, bounds)
       \/ (DrawWidth(bounds) <= MaxGridSide /\ DrawHeight(bounds) <= MaxGridSide)
    /\ \E ord \in IterOrders(log) : out' = CanvasDraw(buffer, bounds, ord)
    /\ redraws' = redraws + 1
    /\ UNCHANGED <<scale, buffer, bounds, box, log, last, nops>>

Next == CanvasRect \/ CanvasText \/ DrawerRect \/ DrawerText \/ BoxInclude \/ Draw

Spec == Init /\ [][Next]_vars

----------------------------------------------------------------------------
(* Vocabulary of the properties *)

\* the inserts issued by the last drawing call
LastWrites == SubSeq(log, last.from + 1, Len(log))
LastWriteSet == {log[i] : i \in (last.from + 1)..Len(log)}

\* the output on screen is that of the canvas as it is now
Rendered == redraws > 0 /\ out.status = "ok"

\* the char printed for the cell c: row canvas_y counted from the last line up,
\* column canvas_x counted from the left
ShownAt(c) == out.lines[Len(out.lines) - CanvasY(c, bounds)][CanvasX(c, bounds) + 1]

\* the exact value of an integer-valued f32
IsWhole(v) == v % Den = 0
Whole(v) == v \div Den

Widened(a, b) ==
    /\ b.x_min <= a.x_min /\ b.y_min <= a.y_min
    /\ b.x_max >= a.x_max /\ b.y_max >= a.y_max

\* ceil(v / 2) for an f32 v
CeilHalf(v) == -((-v) \div (2 * Den))

DashCells(cx, cy, hw, hh) == {<<x, y>> : x \in (cx - hw)..(cx + hw), y \in {cy - hh, cy + hh}}
BarCells(cx, cy, hw, hh) == {<<x, y>> : x \in {cx - hw, cx + hw}, y \in (cy - hh)..(cy + hh)}
CornerCells(cx, cy, hw, hh) == {<<x, y>> : x \in {cx - hw, cx + hw}, y \in {cy - hh, cy + hh}}

\* the last call wrote '-' on exactly the cells dash and '|' on exactly the cells bar
WroteOutline(dash, bar) ==
    LastWriteSet = {[cell |-> c, ch |-> "-"] : c \in dash} \cup {[cell |-> c, ch |-> "|"] : c \in bar}

----------------------------------------------------------------------------
(* C1 *)

\* C1: after any sequence of rect and text calls every buffered cell lies inside
\* the bounding box, and every grid index draw computes for it is in range:
\* 0 <= x - floor(x_min) < width and 0 <= y - floor(y_min) < height.
C1_CellsInsideBounds ==
    \A c \in DOMAIN buffer :
        /\ bounds.x_min <= c[1] * Den /\ c[1] * Den <= bounds.x_max
        /\ bounds.y_min <= c[2] * Den /\ c[2] * Den <= bounds.y_max
        /\ 0 <= CanvasX(c, bounds) /\ CanvasX(c, bounds) < DrawWidth(bounds)
        /\ 0 <= CanvasY(c, bounds) /\ CanvasY(c, bounds) < DrawHeight(bounds)

----------------------------------------------------------------------------
(* C2 *)

\* C2: a canvas whose only write is one character at cell (5,5) renders as exactly
\* one line of exactly one character, that character.
C2_SingleCellRender ==
    (Len(log) = 1 /\ log[1].cell = <<5, 5>> /\ redraws > 0) =>
        /\ out.status = "ok"
        /\ Len(out.lines) = 1
        /\ Len(out.lines[1]) = 1
        /\ out.lines[1][1] = log[1].ch

----------------------------------------------------------------------------
(* C3 *)

\* C3: every cell ever written is in the buffer (no entry is lost), the char the
\* buffer holds for it is the char of the last-issued insert that touched it, and
\* that is the char a completed draw shows at the cell.
C3_LastWriteWins ==
    /\ \A i \in 1..Len(log) : log[i].cell \in DOMAIN buffer
    /\ \A i \in 1..Len(log) :
          (\A j \in (i + 1)..Len(log) : log[j].cell # log[i].cell) =>
              /\ buffer[log[i].cell] = log[i].ch
              /\ Rendered => ShownAt(log[i].cell) = log[i].ch
    /\ \A c \in DOMAIN buffer : \E i \in 1..Len(log) : log[i].cell = c

\* a cell written by an earlier call and overwritten with another char by the
\* last call, then drawn
C3_Witness ==
    /\ Rendered
    /\ \E i \in 1..last.from : \E j \in (last.from + 1)..Len(log) :
          log[i].cell = log[j].cell /\ log[i].ch # buffer[log[i].cell]

----------------------------------------------------------------------------
(* C4 *)

\* C4: every include_point call, and every drawing call, leaves x_min and y_min
\* less than or equal to, and x_max and y_max greater than or equal to, their
\* previous values.
C4_BoundsMonotone == [][Widened(box, box') /\ Widened(bounds, bounds')]_vars

\* both boxes have grown on every side
C4_Witness ==
    /\ box.x_min < 0 /\ box.x_max > 0 /\ box.y_min < 0 /\ box.y_max > 0
    /\ nops >= 2

----------------------------------------------------------------------------
(* C5 *)

\* what Canvas rect wrote, for an integer center (cx, cy): '-' on rows cy-hh and
\* cy+hh for x in [cx-hw, cx+hw], '|' on columns cx-hw and cx+hw for y in
\* [cy-hh, cy+hh], nothing else; and for center (0,0), size (4,2), dashes at
\* y in {-1,1}, x in [-2,2], bars at x in {-2,2}, y in [-1,1]
C5_Outline ==
    LET cx == Whole(last.a.x)
        cy == Whole(last.a.y)
        hw == CeilHalf(last.b.x)
        hh == CeilHalf(last.b.y)
    IN  /\ WroteOutline(DashCells(cx, cy, hw, hh), BarCells(cx, cy, hw, hh))
        /\ (last.a = Vec2(0, 0) /\ last.b = Vec2(4 * Den, 2 * Den)) =>
              WroteOutline({<<x, y>> : x \in -2..2, y \in {-1, 1}},
                           {<<x, y>> : x \in {-2, 2}, y \in -1..1})

C5_CornersAreBars ==
    \A c \in CornerCells(Whole(last.a.x), Whole(last.a.y), CeilHalf(last.b.x), CeilHalf(last.b.y)) :
        c \in DOMAIN buffer /\ buffer[c] = "|"

C5_IsRect == last.op = "canvas_rect" /\ IsWhole(last.a.x) /\ IsWhole(last.a.y)

\* C5 as stated: Canvas rect with an integer center writes exactly the outline
\* rows and columns, and the four corner cells end up holding '|'.
C5_RectOutlineAnySize == C5_IsRect => (C5_Outline /\ C5_CornersAreBars)

\* C5 as amended: Canvas rect with an integer center writes exactly the outline
\* rows and columns, and when the half-height ceil(size.y/2) is not negative
\* (the vertical loop runs) the four corner cells end up holding '|'.
C5_RectOutline ==
    C5_IsRect => (C5_Outline /\ (CeilHalf(last.b.y) >= 0 => C5_CornersAreBars))

\* rect(center (0,0), size (4,2)) has run: its corners were written by both loops
C5_Witness ==
    /\ C5_IsRect /\ last.a = Vec2(0, 0) /\ last.b = Vec2(4 * Den, 2 * Den)
    /\ \E i, j \in (last.from + 1)..Len(log) :
          log[i].cell = <<2, 1>> /\ log[j].cell = <<2, 1>> /\ log[i].ch = "-" /\ log[j].ch = "|"

----------------------------------------------------------------------------
(* C6 *)

----------------------------------------------------------------------------
(* C7 *)

\* C7: a Drawer rect(center, size) step changes the canvas exactly as Canvas
\* rect(center * scale, size * scale) would, the product taken component by
\* component for both arguments; with scale (5,5), center (-1,0), size (1,1) the
\* outline lies around (-5,0) with half-extents 3.
C7_DrawerRectScales ==
    [][(last'.op = "drawer_rect" /\ last' # last) =>
          LET c == Vec2((last'.a.x * scale.x) \div Den, (last'.a.y * scale.y) \div Den)
              z == Vec2((last'.b.x * scale.x) \div Den, (last'.b.y * scale.y) \div Den)
              r == CanvasRectResult(Canvas, c, z)
          IN  /\ buffer' = r.buffer
              /\ bounds' = r.bounds
              /\ (scale = Vec2(5 * Den, 5 * Den) /\ last'.a = Vec2(-Den, 0)
                    /\ last'.b = Vec2(Den, Den)) =>
                    {log'[i].cell : i \in (last'.from + 1)..Len(log')}
                        = DashCells(-5, 0, 3, 3) \cup BarCells(-5, 0, 3, 3)]_vars

\* Drawer rect(center (-1,0), size (1,1)) has run under scale (5,5)
C7_Witness ==
    /\ last.op = "drawer_rect" /\ scale = Vec2(5 * Den, 5 * Den)
    /\ last.a = Vec2(-Den, 0) /\ last.b = Vec2(Den, Den)
    /\ <<-8, -3>> \in DOMAIN buffer /\ <<-2, 3>> \in DOMAIN buffer

----------------------------------------------------------------------------
(* C8 *)

\* C8: a draw leaves the buffer and the bounding box as they were, and a draw of
\* a canvas not written since its previous draw produces the same output again,
\* whichever order the buffer is visited in.
C8_DrawIdempotent ==
    [][redraws' = redraws + 1 =>
          /\ buffer' = buffer
          /\ bounds' = bounds
          /\ redraws > 0 => out' = out]_vars

\* a canvas of several cells drawn twice in a row
C8_Witness == redraws = 2 /\ out.status = "ok" /\ Cardinality(DOMAIN buffer) > 1

----------------------------------------------------------------------------
(* C9 *)

\* C9: render emits exactly ceil(y_max - y_min) + 1 lines of exactly
\* ceil(x_max - x_min) + 1 characters, topmost row first; a buffered cell (x, y)
\* is on line y_max - y at column x - x_min (both from 0), and every other
\* position is a space.
C9_RenderLayout ==
    redraws > 0 =>
        LET height == -((bounds.y_min - bounds.y_max) \div Den) + 1
            width == -((bounds.x_min - bounds.x_max) \div Den) + 1
            x_min == Whole(bounds.x_min)
            y_max == Whole(bounds.y_max)
        IN  /\ out.status = "ok"
            /\ Len(out.lines) = height
            /\ \A k \in 1..height : Len(out.lines[k]) = width
            /\ \A c \in DOMAIN buffer : out.lines[(y_max - c[2]) + 1][(c[1] - x_min) + 1] = buffer[c]
            /\ \A k \in 1..height : \A j \in 1..width :
                  <<x_min + (j - 1), y_max - (k - 1)>> \notin DOMAIN buffer => out.lines[k][j] = " "

----------------------------------------------------------------------------
(* C10 *)

\* C10: a bounding box starts at (0,0,0,0) and always contains the origin, so the
\* grid draw lays out always covers the origin cell (0,0), also when every drawn
\* cell lies strictly on one side of it.
C10_OriginInside ==
    /\ nops = 0 => (bounds = [x_min |-> 0, x_max |-> 0, y_min |-> 0, y_max |-> 0] /\ box = bounds)
    /\ \A b \in {bounds, box} :
          /\ b.x_min <= 0 /\ 0 <= b.x_max /\ b.y_min <= 0 /\ 0 <= b.y_max
          /\ 0 <= CanvasX(<<0, 0>>, b) /\ CanvasX(<<0, 0>>, b) < DrawWidth(b)
          /\ 0 <= CanvasY(<<0, 0>>, b) /\ CanvasY(<<0, 0>>, b) < DrawHeight(b)
    /\ Rendered =>
          /\ Len(out.lines) > CanvasY(<<0, 0>>, bounds)
          /\ \A k \in 1..Len(out.lines) : Len(out.lines[k]) > CanvasX(<<0, 0>>, bounds)

\* every cell drawn lies up and to the right of the origin, and the output is
\* larger than the hull of the drawn cells
C10_Witness ==
    /\ Rendered
    /\ buffer # << >>
    /\ \A c \in DOMAIN buffer : c[1] > 0 /\ c[2] > 0
    /\ <<0, 0>> \notin DOMAIN buffer
    /\ ShownAt(<<0, 0>>) = " "
    /\ Len(out.lines) > 1

====
